---------------------------- MODULE Spec2Model ----------------------------
(***************************************************************************)
(* Reader-mode transformation of resources/resource_protocol/reader-mode.js *)
(*                                                                         *)
(* The live document is a title, a list of head children, a body           *)
(* attribute data-reader-mode and the body's subtree.  A subtree is a      *)
(* sequence of nodes in document (pre-)order; every node carries its       *)
(* depth below the subtree's root, so that the parent of node i is the     *)
(* nearest earlier node one level up.  Scores are kept in hundredths       *)
(* (text.length / 100 is not an integer).                                  *)
(***************************************************************************)
EXTENDS Integers, Sequences, FiniteSets, TLC

\* Largest number of nodes below body in a loaded document.
MaxNodes == 3

---------------------------------------------------------------------------
(* Strings *)

UpperChars == "ABCDEFGHIJKLMNOPQRSTUVWXYZ"
LowerChars == "abcdefghijklmnopqrstuvwxyz"

\* One character of String.prototype.toLowerCase.
LowerChar(c) ==
  IF \E i \in 1..Len(UpperChars) : SubSeq(UpperChars, i, i) = c
  THEN LET i == CHOOSE n \in 1..Len(UpperChars) : SubSeq(UpperChars, n, n) = c
       IN  SubSeq(LowerChars, i, i)
  ELSE c

RECURSIVE ToLowerCase(_)
ToLowerCase(s) ==
  IF Len(s) = 0 THEN s
  ELSE LowerChar(SubSeq(s, 1, 1)) \o ToLowerCase(SubSeq(s, 2, Len(s)))

\* /p1|p2|.../.test(s): some alternative occurs somewhere in s.
RegexTest(alternatives, s) ==
  \E p \in alternatives :
    \E i \in 1..(Len(s) - Len(p) + 1) : SubSeq(s, i, i + Len(p) - 1) = p

RECURSIVE Repeat(_, _)
Repeat(s, n) == IF n = 0 THEN "" ELSE s \o Repeat(s, n - 1)

---------------------------------------------------------------------------
(* The DOM: subtrees in document order *)

TextTag == "#text"
NoNode == -1      \* null
BodyNode == 0     \* document.body, the root of the live subtree

\* Last index of the subtree of node i (i itself when it has no descendant).
RECURSIVE SubtreeEnd(_, _, _)
SubtreeEnd(nodes, i, m) ==
  IF m < Len(nodes) /\ nodes[m + 1].depth > nodes[i].depth
  THEN SubtreeEnd(nodes, i, m + 1)
  ELSE m

\* The descendants of node i (of every node, for the root), in document order.
Descendants(nodes, i) ==
  IF i = BodyNode THEN 1..Len(nodes) ELSE (i + 1)..SubtreeEnd(nodes, i, i)

\* parentNode of node i in a freshly built subtree.
ParentOf(nodes, i) ==
  IF nodes[i].depth = 1 THEN BodyNode
  ELSE CHOOSE p \in 1..(i - 1) :
         /\ nodes[p].depth = nodes[i].depth - 1
         /\ \A q \in (p + 1)..(i - 1) : nodes[q].depth >= nodes[i].depth

\* node.innerText: the text below the node, in document order.
RECURSIVE TextOf(_, _, _)
TextOf(nodes, from, to) ==
  IF from > to THEN ""
  ELSE (IF nodes[from].tag = TextTag THEN nodes[from].text ELSE "")
         \o TextOf(nodes, from + 1, to)

InnerText(nodes, i) ==
  IF i = BodyNode THEN TextOf(nodes, 1, Len(nodes))
  ELSE TextOf(nodes, i + 1, SubtreeEnd(nodes, i, i))

\* document.querySelector: the first element in document order, or null.
First(S) == IF S = {} THEN NoNode ELSE CHOOSE i \in S : \A m \in S : i <= m

QueryTag(nodes, tag) == First({i \in 1..Len(nodes) : nodes[i].tag = tag})

QueryRoleMain(nodes) == First({i \in 1..Len(nodes) : nodes[i].role = "main"})

\* A set of indices as the ascending list a NodeList holds.
RECURSIVE InOrder(_)
InOrder(S) ==
  IF S = {} THEN << >>
  ELSE LET i == First(S) IN << i >> \o InOrder(S \ {i})

---------------------------------------------------------------------------
(* scoreNode and the content locator *)

ScorePenaltyWords ==
  {"comment", "sidebar", "widget", "footer", "nav", "menu", "ad", "social",
   "share", "related"}

ScoreBonusWords ==
  {"article", "content", "post", "entry", "body", "main", "text", "story"}

BoilerplateTags == {"nav", "aside", "footer", "header"}

\* The class and id string without toLowerCase.
ClassIdCaseSensitive(node) == node.cls \o " " \o node.id

\* ((node.className || '') + ' ' + (node.id || '')).toLowerCase()
ClassId(node) == ToLowerCase(node.cls \o " " \o node.id)

Min(a, b) == IF a < b THEN a ELSE b

\* scoreNode(node), times 100.
ScoreNode(nodes, i) ==
  LET text == InnerText(nodes, i)
      ps == Cardinality({m \in Descendants(nodes, i) : nodes[m].tag = "p"})
      ci == ClassId(nodes[i])
  IN  Min(Len(text), 2000)
      + 300 * ps
      - (IF nodes[i].tag \in BoilerplateTags THEN 5000 ELSE 0)
      - (IF RegexTest(ScorePenaltyWords, ci) THEN 3000 ELSE 0)
      + (IF RegexTest(ScoreBonusWords, ci) THEN 2500 ELSE 0)

\* A chain that asks for main before role="main".
SemanticMarkerMainFirst(nodes) ==
  IF QueryTag(nodes, "article") # NoNode THEN QueryTag(nodes, "article")
  ELSE IF QueryTag(nodes, "main") # NoNode THEN QueryTag(nodes, "main")
  ELSE QueryRoleMain(nodes)

\* document.querySelector('article') || ...('[role="main"]') || ...('main')
SemanticMarker(nodes) ==
  IF QueryTag(nodes, "article") # NoNode THEN QueryTag(nodes, "article")
  ELSE IF QueryRoleMain(nodes) # NoNode THEN QueryRoleMain(nodes)
  ELSE QueryTag(nodes, "main")

\* document.querySelectorAll('div, section, td')
Candidates(nodes) ==
  InOrder({i \in 1..Len(nodes) : nodes[i].tag \in {"div", "section", "td"}})

\* bestScore starts at -Infinity, which every score exceeds.
NegInfinity == [fin |-> FALSE, v |-> 0]

\* s >= bestScore
ExceedsOrEquals(s, bestScore) == ~bestScore.fin \/ s >= bestScore.v

\* s > bestScore
Exceeds(s, bestScore) == ~bestScore.fin \/ s > bestScore.v

\* The scan of the candidates from position i on; the content it ends with.
RECURSIVE ScanCandidates(_, _, _, _, _)
ScanCandidates(nodes, candidates, i, bestScore, best) ==
  IF i > Len(candidates) THEN best
  ELSE LET s == ScoreNode(nodes, candidates[i])
       IN  IF Exceeds(s, bestScore)
           THEN ScanCandidates(nodes, candidates, i + 1,
                               [fin |-> TRUE, v |-> s], candidates[i])
           ELSE ScanCandidates(nodes, candidates, i + 1, bestScore, best)

\* The candidates the locator scores: none when a semantic marker exists.
Scored(nodes) ==
  IF SemanticMarker(nodes) # NoNode THEN << >> ELSE Candidates(nodes)

\* A locator without lines 44-46.
LocateWithoutFallback(nodes) ==
  LET marker == SemanticMarker(nodes)
  IN  IF marker # NoNode THEN marker
      ELSE ScanCandidates(nodes, Candidates(nodes), 1, NegInfinity, NoNode)

\* The located content node (lines 30-46): never null.
Locate(nodes) ==
  LET marker == SemanticMarker(nodes)
      best == IF marker # NoNode THEN marker
              ELSE ScanCandidates(nodes, Candidates(nodes), 1, NegInfinity, NoNode)
  IN  IF best # NoNode THEN best ELSE BodyNode

\* An extraction that keeps a document title that is not empty.
ExtractTitleDocFirst(docTitle, nodes) ==
  LET h1 == QueryTag(nodes, "h1")
  IN  IF docTitle = "" /\ h1 # NoNode /\ InnerText(nodes, h1) # ""
      THEN InnerText(nodes, h1)
      ELSE docTitle

\* The extracted title (lines 49-53).
ExtractTitle(docTitle, nodes) ==
  LET h1 == QueryTag(nodes, "h1")
  IN  IF h1 # NoNode /\ InnerText(nodes, h1) # "" THEN InnerText(nodes, h1)
      ELSE docTitle

---------------------------------------------------------------------------
(* The clone and the two exclusion passes *)

CloneRoot == 0    \* parent pointer of the clone's own children
InBody == -2      \* parent pointer of a node moved into the live body

\* content.cloneNode(true): the nodes below the content node, depths rebased.
CloneNode(nodes, c) ==
  IF c = BodyNode THEN nodes
  ELSE [m \in 1..(SubtreeEnd(nodes, c, c) - c) |->
          [nodes[c + m] EXCEPT !.depth = nodes[c + m].depth - nodes[c].depth]]

\* The parentNode of every node of a freshly built subtree.
Parents(nodes) == [m \in 1..Len(nodes) |-> ParentOf(nodes, m)]

\* Whether node m is still a descendant of the clone.
RECURSIVE InClone(_, _)
InClone(par, m) ==
  IF par[m] = CloneRoot THEN TRUE
  ELSE IF par[m] < 0 THEN FALSE
  ELSE InClone(par, par[m])

\* Whether node m is node a or lies below it.
RECURSIVE Below(_, _, _)
Below(par, m, a) ==
  IF m = a THEN TRUE
  ELSE IF par[m] <= 0 THEN FALSE
  ELSE Below(par, par[m], a)

\* Number of parent links from node m up to node a.
RECURSIVE Height(_, _, _)
Height(par, m, a) == IF m = a THEN 0 ELSE 1 + Height(par, par[m], a)

\* A list that leaves footer out.
removeTagsNoFooter ==
  << "script", "style", "iframe", "nav", "aside", "header",
     "form", "button", "input", "select", "textarea", "noscript" >>

removeTags ==
  << "script", "style", "iframe", "nav", "aside", "footer", "header",
     "form", "button", "input", "select", "textarea", "noscript" >>

\* clone.querySelectorAll(tag): a static list, in document order.
QuerySelectorAllTag(nodes, par, tag) ==
  InOrder({m \in 1..Len(nodes) : InClone(par, m) /\ nodes[m].tag = tag})

\* clone.querySelectorAll('*'): every element below the clone.
QuerySelectorAllElements(nodes, par) ==
  InOrder({m \in 1..Len(nodes) : InClone(par, m) /\ nodes[m].tag # TextTag})

\* The next entry of removeTags after t whose query matches anything, or
\* Len(removeTags) + 1 when the loop over removeTags runs out.
NextTag(nodes, par, t) ==
  LET hits == {u \in (t + 1)..Len(removeTags) :
                 QuerySelectorAllTag(nodes, par, removeTags[u]) # << >>}
  IN  IF hits = {} THEN Len(removeTags) + 1 ELSE First(hits)

\* for (var j = els.length - 1; j >= 0; j--): positions here count from 1.
TagLoopStart(list) == Len(list)
\* j > 0 in the place of j >= 0.
TagLoopStopsEarly(pos) == pos >= 2
TagLoopContinues(pos) == pos >= 1

\* parent.removeChild(el)
RemoveChild(par, el) == [par EXCEPT ![el] = NoNode]

ExclusionWords ==
  {"ad-", "ads-", "advert", "sidebar", "widget", "share", "social", "comment",
   "related", "popup", "modal", "overlay", "cookie", "banner"}

\* The test of line 71 on an element.
IsExcludedClass(node) == RegexTest(ExclusionWords, ClassId(node))

\* The body of the class/id loop for element el (lines 69-75).
ClassStep(nodes, par, el) ==
  IF IsExcludedClass(nodes[el])
  THEN IF par[el] # NoNode
       THEN [par |-> RemoveChild(par, el), threw |-> FALSE]
       ELSE [par |-> par, threw |-> FALSE]
  ELSE [par |-> par, threw |-> FALSE]

\* The body of the tag loop for element el (line 62): no guard.
TagStep(par, el) ==
  IF par[el] # NoNode
  THEN [par |-> RemoveChild(par, el), threw |-> FALSE]
  ELSE [par |-> par, threw |-> TRUE]

---------------------------------------------------------------------------
(* The rebuild *)

ReaderPrefix == "Reader: "
ReaderFlag == "true"

\* A guard that compares the attribute with the boolean: never true.
InReaderModeBoolean(attr) == FALSE

\* The guard of line 5.
InReaderMode(attr) == attr = ReaderFlag

\* The head the script builds (lines 83-107); setting document.title on a
\* head without a title element appends one.
ReaderHead == << "meta:charset", "meta:viewport", "title", "style:reader" >>

\* A heading whose textContent is never set.
HeadingWithoutText(text) ==
  << [tag |-> "h1", cls |-> "", id |-> "", role |-> "", text |-> "",
      depth |-> 1] >>

\* heading = document.createElement('h1'); heading.textContent = title
Heading(text) ==
  IF text = ""
  THEN << [tag |-> "h1", cls |-> "", id |-> "", role |-> "", text |-> "",
           depth |-> 1] >>
  ELSE << [tag |-> "h1", cls |-> "", id |-> "", role |-> "", text |-> "",
           depth |-> 1],
          [tag |-> TextTag, cls |-> "", id |-> "", role |-> "", text |-> text,
           depth |-> 2] >>

\* The children of the clone, in order.
CloneChildren(par) == InOrder({m \in 1..Len(par) : par[m] = CloneRoot})

\* clone.lastChild in the place of clone.firstChild.
LastChild(par) ==
  LET S == {m \in 1..Len(par) : par[m] = CloneRoot}
  IN  IF S = {} THEN NoNode ELSE CHOOSE i \in S : \A m \in S : i >= m

\* clone.firstChild (the transfer loop runs while it is not null).
FirstChild(par) == First({m \in 1..Len(par) : par[m] = CloneRoot})

\* The nodes that move with child c, in document order.
MovedWith(par, c) == InOrder({m \in 1..Len(par) : Below(par, m, c)})

\* The subtree of child c as it is appended to the body.
RECURSIVE Appended(_, _, _, _)
Appended(nodes, par, c, list) ==
  IF list = << >> THEN << >>
  ELSE << [nodes[list[1]] EXCEPT !.depth = 1 + Height(par, list[1], c)] >>
         \o Appended(nodes, par, c, Tail(list))

---------------------------------------------------------------------------
(* The documents a run starts from *)

El(tag, cls, id, role) ==
  [tag |-> tag, cls |-> cls, id |-> id, role |-> role, text |-> ""]

Text(data) ==
  [tag |-> TextTag, cls |-> "", id |-> "", role |-> "", text |-> data]

\* A paragraph of prose long enough for two of them to pass the score's cap.
LongText == Repeat("Lorem ipsum ", 100)

\* Documents that carry semantic markers beside an attractive div.
MarkerKinds ==
  { El("article", "", "", ""), El("div", "", "", "main"),
    El("main", "", "", ""), El("div", "content", "", "") }

\* Documents of div/section/td candidates of differing scores.
CandidateKinds ==
  { El("div", "", "", ""), El("td", "Sidebar", "Main", ""),
    El("section", "", "Story", ""), El("p", "", "", ""), Text(LongText) }

\* Documents with elements of the excluded tags.
ChromeKinds ==
  { El("div", "", "", ""), El("nav", "", "", ""), El("footer", "", "", ""),
    Text("Hi") }

\* Documents with elements of the excluded classes and ids.
AdKinds ==
  { El("article", "", "", ""), El("div", "ad-banner-top", "", ""),
    El("span", "", "Cookie-Notice", ""), El("p", "", "", "") }

\* Documents with headings.
HeadingKinds == { El("h1", "", "", ""), El("div", "", "", ""), Text("Heading") }

\* The subtrees of n nodes over the given kinds: depths that form a tree in
\* which a text node has no child.
Subtrees(kinds, n) ==
  { [i \in 1..n |-> [tag |-> ks[i].tag, cls |-> ks[i].cls, id |-> ks[i].id,
                     role |-> ks[i].role, text |-> ks[i].text,
                     depth |-> ds[i]]] :
      <<ks, ds>> \in
        { kd \in [1..n -> kinds] \X [1..n -> 1..n] :
            /\ n > 0 => kd[2][1] = 1
            /\ \A i \in 1..(n - 1) :
                 /\ kd[2][i + 1] <= kd[2][i] + 1
                 /\ kd[1][i].tag = TextTag => kd[2][i + 1] <= kd[2][i] } }

Bodies(kinds) == UNION { Subtrees(kinds, n) : n \in 0..MaxNodes }

\* A document as its source delivers it; the source may itself set
\* data-reader-mode on body.
Document(ti, fl, b) ==
  [title |-> ti, head |-> << "title", "link:stylesheet" >>, flag |-> fl,
   body |-> b]

Documents ==
  { Document("Doc", fl, b) :
      fl \in {"", "true"},
      b \in Bodies(MarkerKinds) \cup Bodies(CandidateKinds)
              \cup Bodies(ChromeKinds) \cup Bodies(AdKinds) }
  \cup
  { Document(ti, "", b) : ti \in {"", "Doc"}, b \in Bodies(HeadingKinds) }

---------------------------------------------------------------------------
(* State *)

VARIABLES
  loaded,     \* the document as its source delivers it (what a reload restores)
  docTitle,   \* document.title
  head,       \* the children of document.head
  body,       \* the subtree of document.body
  flag,       \* body's data-reader-mode attribute ("" when absent)
  reloading,  \* location.reload() was called and the navigation is pending
  pc,         \* where the script is: "idle" between invocations
  content,    \* var content
  title,      \* var title
  clone,      \* the nodes of var clone
  parent,     \* parentNode of every node of the clone
  t,          \* var t, counting from 1
  els,        \* var els
  j,          \* var j, counting from 1
  allEls,     \* var allEls
  k,          \* var k, counting from 1
  scored,     \* history: the candidates scoreNode was called on in this run
  kids,       \* history: the clone's children when the transfer loop starts
  origin,     \* history: for every node of body, the node of the clone it
              \* was moved from (NoNode for any other node)
  threw,      \* history: the last run ended in a TypeError
  rebuilt     \* history: this document instance has been rebuilt

vars ==
  << loaded, docTitle, head, body, flag, reloading, pc, content, title, clone,
     parent, t, els, j, allEls, k, scored, kids, origin, threw, rebuilt >>

document == << docTitle, head, body, flag >>
locals == << content, title, clone, parent, t, els, j, allEls, k >>
history == << scored, kids, origin >>

NoLocals ==
  /\ content = NoNode
  /\ title = ""
  /\ clone = << >>
  /\ parent = << >>
  /\ t = 0
  /\ els = << >>
  /\ j = 0
  /\ allEls = << >>
  /\ k = 0
  /\ scored = << >>
  /\ kids = << >>

\* A new document instance has no script state.
ResetLocals ==
  /\ content' = NoNode
  /\ title' = ""
  /\ clone' = << >>
  /\ parent' = << >>
  /\ t' = 0
  /\ els' = << >>
  /\ j' = 0
  /\ allEls' = << >>
  /\ k' = 0
  /\ scored' = << >>
  /\ kids' = << >>

Init ==
  /\ loaded \in Documents
  /\ docTitle = loaded.title
  /\ head = loaded.head
  /\ body = loaded.body
  /\ origin = [i \in 1..Len(loaded.body) |-> NoNode]
  /\ flag = loaded.flag
  /\ reloading = FALSE
  /\ pc = "idle"
  /\ NoLocals
  /\ threw = FALSE
  /\ rebuilt = FALSE

---------------------------------------------------------------------------
(* The script, lines 1-125 *)

\* Lines 5-8: invoked on a document in reader mode, the script asks for a
\* reload and returns.
RequestReload ==
  /\ pc = "idle"
  /\ InReaderMode(flag)
  /\ reloading' = TRUE
  /\ UNCHANGED << loaded, document, pc, locals, history, threw, rebuilt >>

\* Lines 5-56: the guard lets the run pass; it locates the content, extracts
\* the title and clones the content.
Start ==
  /\ pc = "idle"
  /\ ~InReaderMode(flag)
  /\ content' = Locate(body)
  /\ scored' = Scored(body)
  /\ title' = ExtractTitle(docTitle, body)
  /\ IF content' = NoNode
     THEN \* null.cloneNode: a TypeError ends the run
          /\ clone' = << >>
          /\ parent' = << >>
          /\ threw' = TRUE
          /\ pc' = "idle"
     ELSE /\ clone' = CloneNode(body, content')
          /\ parent' = Parents(clone')
          /\ threw' = FALSE
          /\ pc' = "tags"
  /\ t' = 0
  /\ els' = << >>
  /\ j' = 0
  /\ allEls' = << >>
  /\ k' = 0
  /\ kids' = << >>
  /\ UNCHANGED << loaded, document, reloading, origin, rebuilt >>

\* Lines 59-61 and 67: the loop over removeTags moves on to its next query
\* that matches anything; when it runs out, the class/id pass takes its list.
TagQuery ==
  /\ pc = "tags"
  /\ ~TagLoopContinues(j)
  /\ LET u == NextTag(clone, parent, t)
     IN  /\ t' = u
         /\ IF u <= Len(removeTags)
            THEN /\ els' = QuerySelectorAllTag(clone, parent, removeTags[u])
                 /\ j' = TagLoopStart(els')
                 /\ UNCHANGED << pc, allEls, k >>
            ELSE /\ els' = << >>
                 /\ j' = 0
                 /\ allEls' = QuerySelectorAllElements(clone, parent)
                 /\ k' = 1
                 /\ pc' = "classes"
  /\ UNCHANGED << loaded, document, reloading, content, title, clone, parent,
                  history, threw, rebuilt >>

\* Line 62: one removal of the tag pass; through a null parentNode it throws
\* and the run ends.
TagRemove ==
  /\ pc = "tags"
  /\ TagLoopContinues(j)
  /\ LET r == TagStep(parent, els[j])
     IN  /\ parent' = r.par
         /\ threw' = r.threw
         /\ pc' = IF r.threw THEN "idle" ELSE pc
  /\ j' = j - 1
  /\ UNCHANGED << loaded, document, reloading, content, title, clone, t, els,
                  allEls, k, history, rebuilt >>

\* Lines 68-76: one element of the class/id pass.
ClassRemove ==
  /\ pc = "classes"
  /\ k <= Len(allEls)
  /\ LET r == ClassStep(clone, parent, allEls[k])
     IN  /\ parent' = r.par
         /\ threw' = r.threw
         /\ pc' = IF r.threw THEN "idle" ELSE pc
  /\ k' = k + 1
  /\ UNCHANGED << loaded, document, reloading, content, title, clone, t, els, j,
                  allEls, history, rebuilt >>

\* Lines 83-116: the head is emptied and rebuilt, the title set, the body
\* emptied and given its heading.
Rebuild ==
  /\ pc = "classes"
  /\ k > Len(allEls)
  /\ head' = ReaderHead
  /\ docTitle' = ReaderPrefix \o title
  /\ body' = Heading(title)
  /\ origin' = [i \in 1..Len(Heading(title)) |-> NoNode]
  /\ kids' = CloneChildren(parent)
  /\ pc' = "transfer"
  /\ UNCHANGED << loaded, flag, reloading, locals, scored, threw, rebuilt >>

\* Lines 119-121: one child of the clone moves into the body.
Transfer ==
  /\ pc = "transfer"
  /\ FirstChild(parent) # NoNode
  /\ LET c == FirstChild(parent)
         moved == MovedWith(parent, c)
     IN  /\ body' = body \o Appended(clone, parent, c, moved)
         /\ origin' = origin \o moved
         /\ parent' = [parent EXCEPT ![c] = InBody]
  /\ UNCHANGED << loaded, docTitle, head, flag, reloading, pc, content, title,
                  clone, t, els, j, allEls, k, scored, kids, threw, rebuilt >>

\* Lines 123-124: the run completes.
Finish ==
  /\ pc = "transfer"
  /\ FirstChild(parent) = NoNode
  /\ flag' = ReaderFlag
  /\ rebuilt' = TRUE
  /\ pc' = "idle"
  /\ UNCHANGED << loaded, docTitle, head, body, reloading, locals, history,
                  threw >>

\* The navigation that location.reload() asked for: a new document instance
\* from the original source.
Reload ==
  /\ pc = "idle"
  /\ reloading
  /\ docTitle' = loaded.title
  /\ head' = loaded.head
  /\ body' = loaded.body
  /\ origin' = [i \in 1..Len(loaded.body) |-> NoNode]
  /\ flag' = loaded.flag
  /\ reloading' = FALSE
  /\ pc' = "idle"
  /\ ResetLocals
  /\ threw' = FALSE
  /\ rebuilt' = FALSE
  /\ UNCHANGED loaded

Next ==
  \/ RequestReload
  \/ Start
  \/ TagQuery
  \/ TagRemove
  \/ ClassRemove
  \/ Rebuild
  \/ Transfer
  \/ Finish
  \/ Reload

Spec == Init /\ [][Next]_vars

---------------------------------------------------------------------------
(* Vocabulary of the properties *)

\* A run has completed on this document instance.
Done == pc = "idle" /\ rebuilt

\* A run has located its content on this document instance.
Located == content # NoNode

\* The node of the loaded document that node n of the body is a copy of.
SourceOf(n) == content + origin[n]

\* The children of body, in order.
TopLevel == InOrder({n \in 1..Len(body) : body[n].depth = 1})

\* The clone nodes that the children of body after the first were moved from.
RECURSIVE OriginsOf(_)
OriginsOf(list) ==
  IF list = << >> THEN << >> ELSE << origin[list[1]] >> \o OriginsOf(Tail(list))

\* A bound on the steps a started run still has to take.
StepsLeft ==
  LET w == Len(clone) + 1
  IN  CASE pc = "tags" -> 2 * w + 2 + w * (Len(removeTags) + 1 - t) + j
        [] pc = "classes" -> w + 2 + Len(allEls) - k
        [] pc = "transfer" -> 1 + Len(CloneChildren(parent))
        [] OTHER -> 0

ExcludedTags ==
  {"script", "style", "iframe", "nav", "aside", "footer", "header", "form",
   "button", "input", "select", "textarea", "noscript"}

ExclusionPatterns ==
  {"ad-", "ads-", "advert", "sidebar", "widget", "share", "social", "comment",
   "related", "popup", "modal", "overlay", "cookie", "banner"}

MatchesExclusion(node) ==
  RegexTest(ExclusionPatterns, ToLowerCase(node.cls \o " " \o node.id))

Markers(nodes) ==
  {i \in 1..Len(nodes) :
     nodes[i].tag \in {"article", "main"} \/ nodes[i].role = "main"}

CandidateSet(nodes) ==
  {i \in 1..Len(nodes) : nodes[i].tag \in {"div", "section", "td"}}

IsFirstWith(nodes, i, Tag, role) ==
  /\ i \in 1..Len(nodes)
  /\ (nodes[i].tag = Tag \/ (role # "" /\ nodes[i].role = role))
  /\ \A m \in 1..(i - 1) :
       ~(nodes[m].tag = Tag \/ (role # "" /\ nodes[m].role = role))

---------------------------------------------------------------------------
(* Properties *)

\* C1: an invocation on a document whose data-reader-mode is 'true' only asks
\* for a reload: it scores nothing, clones nothing and leaves title, head and
\* body alone; the only other step from there is the reload itself, which
\* restores the loaded document.  A rebuilt document always carries the flag,
\* so no run starts on it.
C1_ReaderInvocationOnlyReloads ==
  /\ [](rebuilt => flag = "true")
  /\ [][ (pc = "idle" /\ flag = "true") =>
           \/ /\ reloading'
              /\ UNCHANGED << docTitle, head, body, flag, content, title, clone,
                              parent, scored, kids, origin, rebuilt >>
           \/ /\ reloading /\ ~reloading'
              /\ docTitle' = loaded.title
              /\ head' = loaded.head
              /\ body' = loaded.body
              /\ flag' = loaded.flag
              /\ ~rebuilt' ]_vars

\* An invocation has been made on a rebuilt document.
C1_Witness == Done /\ flag = "true" /\ reloading /\ body # loaded.body

\* C2: after a successful run no node of the body, at any depth, has one of
\* the thirteen excluded tags.
C2_NoExcludedTagInBody ==
  Done => \A n \in 1..Len(body) : body[n].tag \notin ExcludedTags

\* A run completed on content that held an excluded element below another
\* element and kept something.
C2_Witness ==
  /\ Done
  /\ \E m \in 1..Len(clone) : clone[m].tag \in ExcludedTags /\ clone[m].depth >= 2
  /\ \E n \in 1..Len(body) : origin[n] # NoNode

\* C3 as stated: after a successful run no node of the body is a copy of a
\* node of the loaded document that matches an exclusion pattern, nor of a
\* descendant of such a node.
C3_NoCopyBelowAnyExcludedNode ==
  Done =>
    \A i \in 1..Len(loaded.body) :
      MatchesExclusion(loaded.body[i]) =>
        \A n \in 1..Len(body) :
          origin[n] # NoNode =>
            SourceOf(n) \notin ({i} \cup Descendants(loaded.body, i))

\* C3 amended: the same for the matching nodes that lie strictly inside the
\* located content node.
C3_NoCopyBelowExcludedNodeInContent ==
  Done =>
    \A i \in Descendants(loaded.body, content) :
      MatchesExclusion(loaded.body[i]) =>
        \A n \in 1..Len(body) :
          origin[n] # NoNode =>
            SourceOf(n) \notin ({i} \cup Descendants(loaded.body, i))

\* A run completed on content that held a matching element with a descendant
\* that matches nothing itself, and kept something.
C3_Witness ==
  /\ Done
  /\ \E i \in Descendants(loaded.body, content) :
       /\ MatchesExclusion(loaded.body[i])
       /\ \E d \in Descendants(loaded.body, i) :
            /\ loaded.body[d].tag # TextTag
            /\ ~MatchesExclusion(loaded.body[d])
  /\ \E n \in 1..Len(body) : origin[n] # NoNode

\* C4 as stated: after a successful run the body has exactly one h1 child,
\* its first child, built from the title, and every other child was
\* transferred from the clone.
C4_ExactlyOneTopLevelHeading ==
  Done =>
    /\ Cardinality({n \in 1..Len(body) :
                      body[n].depth = 1 /\ body[n].tag = "h1"}) = 1
    /\ body[1].tag = "h1" /\ origin[1] = NoNode
    /\ InnerText(body, 1) = title
    /\ \A n \in 2..Len(body) : body[n].depth = 1 => origin[n] # NoNode

\* C4 amended: after a successful run the first child of body is the h1
\* built from the title, the only child that was not transferred from the
\* clone; the h1 children of body are this one and the h1 children of the
\* cleaned clone.
C4_HeadingFirstThenContent ==
  Done =>
    /\ body[1].tag = "h1" /\ body[1].depth = 1 /\ origin[1] = NoNode
    /\ InnerText(body, 1) = title
    /\ \A n \in 2..Len(body) : body[n].depth = 1 => origin[n] # NoNode
    /\ Cardinality({n \in 1..Len(body) :
                      body[n].depth = 1 /\ body[n].tag = "h1"})
         = 1 + Cardinality({m \in 1..Len(kids) : clone[kids[m]].tag = "h1"})

\* A run completed on content with an h1 child of its own.
C4_Witness ==
  /\ Done
  /\ \E n \in 2..Len(body) :
       body[n].depth = 1 /\ body[n].tag = "h1" /\ origin[n] # NoNode

\* C5: the located content is the first article if the document has one,
\* else the first element with role="main", else the first main element, and
\* whenever one of these exists scoreNode is called on nothing.
C5_SemanticMarkerPriority ==
  Located =>
    LET nodes == loaded.body
        has(Tag, role) == \E i \in 1..Len(nodes) : IsFirstWith(nodes, i, Tag, role)
    IN  /\ has("article", "") =>
             IsFirstWith(nodes, content, "article", "") /\ scored = << >>
        /\ (~has("article", "") /\ has("", "main")) =>
             IsFirstWith(nodes, content, "", "main") /\ scored = << >>
        /\ (~has("article", "") /\ ~has("", "main") /\ has("main", "")) =>
             IsFirstWith(nodes, content, "main", "") /\ scored = << >>

\* An article was located although a div that scores 25 or more, a main
\* element or a role="main" element comes before it.
C5_Witness ==
  /\ Located
  /\ \E a \in 1..Len(loaded.body) :
       /\ loaded.body[a].tag = "article"
       /\ \E d \in 1..(a - 1) :
            /\ loaded.body[d].tag = "div"
            /\ ScoreNode(loaded.body, d) >= 2500
       /\ \E m \in 1..(a - 1) :
            loaded.body[m].tag = "main" \/ loaded.body[m].role = "main"

\* C6: without a semantic marker and with at least one div/section/td, the
\* located content is a candidate of maximal score, and the earliest in
\* document order of those.
C6_MaximalScoreEarliestWins ==
  (Located /\ Markers(loaded.body) = {} /\ CandidateSet(loaded.body) # {}) =>
    /\ content \in CandidateSet(loaded.body)
    /\ \A c \in CandidateSet(loaded.body) :
         /\ ScoreNode(loaded.body, c) <= ScoreNode(loaded.body, content)
         /\ ScoreNode(loaded.body, c) = ScoreNode(loaded.body, content)
              => content <= c

\* The located candidate ties with a later one and beats another.
C6_Witness ==
  /\ Located /\ Markers(loaded.body) = {}
  /\ \E c \in CandidateSet(loaded.body), d \in CandidateSet(loaded.body) :
       /\ c > content
       /\ ScoreNode(loaded.body, c) = ScoreNode(loaded.body, content)
       /\ ScoreNode(loaded.body, d) < ScoreNode(loaded.body, content)

\* C7: while and after the transfer loop runs, the children of body after
\* the heading followed by the children the clone still has are the children
\* the clone had when the loop started, in the same order, each child of
\* body being the clone's node; when the run is over the clone has no child.
C7_TransferKeepsEveryChildInOrder ==
  (pc = "transfer" \/ Done) =>
    /\ OriginsOf(Tail(TopLevel)) \o CloneChildren(parent) = kids
    /\ \A n \in 2..Len(body) :
         body[n].depth = 1 =>
           /\ origin[n] \in 1..Len(clone)
           /\ body[n] = [clone[origin[n]] EXCEPT !.depth = 1]
    /\ Done => CloneChildren(parent) = << >>

\* A run completed that moved a text node and an element, two children or
\* more.
C7_Witness ==
  /\ Done
  /\ Len(kids) >= 2
  /\ \E a \in 1..Len(kids), b \in 1..Len(kids) :
       clone[kids[a]].tag = TextTag /\ clone[kids[b]].tag # TextTag

\* C8: after a successful run the extracted title is the text of the loaded
\* document's first h1 when that text is not empty and the loaded document's
\* title otherwise; document.title is "Reader: " followed by it and the text
\* of the body's heading is it.
C8_TitleFromFirstHeading ==
  Done =>
    LET nodes == loaded.body
        h1s == {i \in 1..Len(nodes) : nodes[i].tag = "h1"}
        h1 == CHOOSE i \in h1s : \A m \in h1s : i <= m
    IN  /\ IF h1s # {} /\ InnerText(nodes, h1) # ""
           THEN title = InnerText(nodes, h1)
           ELSE title = loaded.title
        /\ docTitle = "Reader: " \o title
        /\ body[1].tag = "h1"
        /\ InnerText(body, 1) = title

\* A run completed on a document with a title and an h1 with another text.
C8_Witness ==
  /\ Done
  /\ loaded.title # ""
  /\ \E i \in 1..Len(loaded.body) :
       /\ IsFirstWith(loaded.body, i, "h1", "")
       /\ InnerText(loaded.body, i) \notin {"", loaded.title}

\* C9: every started run has a content node, which is a node of the document
\* or the body; it is the body when the document has no article, role="main",
\* main, div, section or td; no run throws; every step of a started run
\* brings it nearer to its end, which sets reader mode; a completed run on
\* the body leaves it with copies of nodes of its own original subtree only.
C9_LocatorTotalBodyFallback ==
  /\ []((pc # "idle" \/ rebuilt) => content \in 0..Len(loaded.body))
  /\ []((Located /\ Markers(loaded.body) = {} /\ CandidateSet(loaded.body) = {})
          => content = BodyNode)
  /\ [](~threw)
  /\ [][pc # "idle" => StepsLeft' < StepsLeft]_vars
  /\ [][(pc # "idle" /\ pc' = "idle") => (Done' /\ flag' = "true")]_vars
  /\ []((Done /\ content = BodyNode) =>
          /\ clone = loaded.body
          /\ \A n \in 1..Len(body) :
               origin[n] # NoNode =>
                 body[n] = [loaded.body[origin[n]] EXCEPT !.depth = body[n].depth])

\* A run completed on the body of a document that has nodes but no marker
\* and no candidate, and kept something.
C9_Witness ==
  /\ Done /\ content = BodyNode
  /\ Markers(loaded.body) = {} /\ CandidateSet(loaded.body) = {}
  /\ \E n \in 1..Len(body) : origin[n] # NoNode

\* C10: no removal goes through a null parentNode.  In the tag pass the
\* element about to be removed has a parent; when a tag's inner loop is over
\* the clone holds no element of that tag, and none of any excluded tag when
\* the pass is over; no run throws; in the class/id pass the loop body leaves
\* an element without parent alone.
C10_NoRemovalThroughNullParent ==
  /\ ~threw
  /\ (pc = "tags" /\ j >= 1) => parent[els[j]] # NoNode
  /\ (pc = "tags" /\ j = 0 /\ t >= 1) =>
       \A m \in 1..Len(clone) :
         InClone(parent, m) => clone[m].tag # removeTags[t]
  /\ pc = "classes" =>
       /\ \A m \in 1..Len(clone) :
            InClone(parent, m) => clone[m].tag \notin ExcludedTags
       /\ \A m \in 1..Len(clone) :
            parent[m] = NoNode =>
              ClassStep(clone, parent, m) = [par |-> parent, threw |-> FALSE]

\* The tag pass is about to remove an element after it has removed an element
\* of the same tag from inside it.
C10_Witness ==
  /\ pc = "tags" /\ j >= 1 /\ j < Len(els)
  /\ parent[els[j + 1]] = NoNode
  /\ els[j + 1] \in Descendants(clone, els[j])

=============================================================================
